---- MODULE Spec2Model ----
(***************************************************************************)
(* STM32F1 board support of Embox: the USART resource resolver and         *)
(* HAL_UART_MspInit (src/drivers/serial/stm32_usart/hal_msp_f1.c) and the  *)
(* clock bring-up, shutdown and tick glue                                  *)
(* (third-party/bsp/stmf1cube/arch.c).                                     *)
(***************************************************************************)
EXTENDS Integers, Sequences, FiniteSets

(* ---------------------------------------------------------------- bounds *)

\* The timer collaborator advances the system tick counter at most this far.
MaxTicks == 1
\* HAL_GetTick readings that are recorded.
MaxReads == 2

(* ------------------------------------------- hardware names and constants *)

\* Peripheral base pointers (opaque handles compared by identity).
NULL == "NULL"
USART1 == "USART1"
USART2 == "USART2"
USART3 == "USART3"
GPIOA == "GPIOA"

\* Every value a caller can pass as usart_base (void *).
Instances == {USART1, USART2, USART3, NULL}

\* GPIO_PIN_n is the bit mask of pin n (uint16_t).
GPIO_PIN(n) == 2 ^ n
GPIO_PIN_2 == GPIO_PIN(2)
GPIO_PIN_3 == GPIO_PIN(3)
GPIO_PIN_9 == GPIO_PIN(9)
GPIO_PIN_10 == GPIO_PIN(10)

GPIO_MODE_AF_PP == "GPIO_MODE_AF_PP"
GPIO_PULLUP == "GPIO_PULLUP"
GPIO_SPEED_FREQ_HIGH == "GPIO_SPEED_FREQ_HIGH"

\* The bits of the RCC peripheral-clock-enable registers the model tracks.
Clocks == {"GPIOA", "GPIOB", "USART1", "USART2"}

UNINIT == "UNINIT"
\* A GPIO_InitTypeDef nothing has been written to.
NoInit == [Pin |-> 0, Mode |-> UNINIT, Pull |-> UNINIT, Speed |-> UNINIT]

\* One hardware-facing call: its name, the clock or port it addresses and, for
\* HAL_GPIO_Init, the configuration passed.
Event(name, target, init) == [ev |-> name, tgt |-> target, init |-> init]
ClkEvent(clk) == Event("CLK_ENABLE", clk, NoInit)
CallEvent(name) == Event(name, "", NoInit)

\* The hardware as the resolver functions see it: hw.rcc, the set enable bits,
\* and hw.calls, the hardware-facing calls made so far.
\* SET_BIT on an RCC enable register: the bit is set, every other bit is kept.
SET_BIT(hw, bit) ==
    [rcc |-> hw.rcc \cup {bit}, calls |-> Append(hw.calls, ClkEvent(bit))]

__HAL_RCC_GPIOA_CLK_ENABLE(hw) == SET_BIT(hw, "GPIOA")
__HAL_RCC_USART1_CLK_ENABLE(hw) == SET_BIT(hw, "USART1")
__HAL_RCC_USART2_CLK_ENABLE(hw) == SET_BIT(hw, "USART2")

(* ------------------------------------------------------ resolver functions *)

\* The result of a call that ran into assert(0), compiled with assertions
\* enabled (NDEBUG not defined): the program halts inside the call, nothing is
\* handed back to the caller.
Halts(hw) == [asserted |-> TRUE, hw |-> hw, val |-> -1, ptr |-> "NONE"]
\* The result of a call that returned: nothing, a uint16_t or a pointer.
Done(hw) == [asserted |-> FALSE, hw |-> hw, val |-> -1, ptr |-> "NONE"]
ReturnsVal(hw, v) == [asserted |-> FALSE, hw |-> hw, val |-> v, ptr |-> "NONE"]
ReturnsPtr(hw, p) == [asserted |-> FALSE, hw |-> hw, val |-> -1, ptr |-> p]

\* The TX port clock enable without the instance check.
USART_TX_GPIO_CLK_ENABLE_NoCheck(usart_base, hw) ==
    Done(__HAL_RCC_GPIOA_CLK_ENABLE(hw))

USART_TX_GPIO_CLK_ENABLE(usart_base, hw) ==
    IF usart_base = USART1 \/ usart_base = USART2
    THEN Done(__HAL_RCC_GPIOA_CLK_ENABLE(hw))
    ELSE Halts(hw)

\* The RX variant with the enable macro of another port pasted in.
USART_RX_GPIO_CLK_ENABLE_WrongPort(usart_base, hw) ==
    IF usart_base = USART1 \/ usart_base = USART2
    THEN Done(SET_BIT(hw, "GPIOB"))
    ELSE Halts(hw)

USART_RX_GPIO_CLK_ENABLE(usart_base, hw) ==
    IF usart_base = USART1 \/ usart_base = USART2
    THEN Done(__HAL_RCC_GPIOA_CLK_ENABLE(hw))
    ELSE Halts(hw)

\* The peripheral clock enable with the two branches swapped.
USART_CLK_ENABLE_Swapped(usart_base, hw) ==
    IF usart_base = USART1
    THEN Done(__HAL_RCC_USART2_CLK_ENABLE(hw))
    ELSE IF usart_base = USART2
         THEN Done(__HAL_RCC_USART1_CLK_ENABLE(hw))
         ELSE Halts(hw)

USART_CLK_ENABLE(usart_base, hw) ==
    IF usart_base = USART1
    THEN Done(__HAL_RCC_USART1_CLK_ENABLE(hw))
    ELSE IF usart_base = USART2
         THEN Done(__HAL_RCC_USART2_CLK_ENABLE(hw))
         ELSE Halts(hw)

\* The RX pin lookup with the second comparison dropped: every instance that is
\* not USART1 is taken for USART2.
USART_RX_PIN_NoCheck(usart_base, hw) ==
    IF usart_base = USART1 THEN ReturnsVal(hw, GPIO_PIN_10)
    ELSE ReturnsVal(hw, GPIO_PIN_3)

USART_RX_PIN(usart_base, hw) ==
    IF usart_base = USART1 THEN ReturnsVal(hw, GPIO_PIN_10)
    ELSE IF usart_base = USART2 THEN ReturnsVal(hw, GPIO_PIN_3)
    ELSE Halts(hw)

\* The TX pin lookup answering with the RX pin of USART2.
USART_TX_PIN_RxOfUsart2(usart_base, hw) ==
    IF usart_base = USART1 THEN ReturnsVal(hw, GPIO_PIN_9)
    ELSE IF usart_base = USART2 THEN ReturnsVal(hw, GPIO_PIN_3)
    ELSE Halts(hw)

USART_TX_PIN(usart_base, hw) ==
    IF usart_base = USART1 THEN ReturnsVal(hw, GPIO_PIN_9)
    ELSE IF usart_base = USART2 THEN ReturnsVal(hw, GPIO_PIN_2)
    ELSE Halts(hw)

USART_RX_GPIO_PORT(usart_base, hw) ==
    IF usart_base = USART1 \/ usart_base = USART2
    THEN ReturnsPtr(hw, GPIOA)
    ELSE Halts(hw)

USART_TX_GPIO_PORT(usart_base, hw) ==
    IF usart_base = USART1 \/ usart_base = USART2
    THEN ReturnsPtr(hw, GPIOA)
    ELSE Halts(hw)

\* HAL_GPIO_Init(port, &init): the pin configuration is handed to the HAL.
HAL_GPIO_Init(port, init, hw) ==
    [rcc |-> hw.rcc, calls |-> Append(hw.calls, Event("HAL_GPIO_Init", port, init))]

(* ------------------------- stm32_usart_conf_f1.h: the build-time table *)

\* The values of the build option usartx the header has a branch for.
UsartxOptions == {1, 2}

\* The older spellings of the enable macros, as the header uses them.
__USART1_CLK_ENABLE(hw) == __HAL_RCC_USART1_CLK_ENABLE(hw)
__USART2_CLK_ENABLE(hw) == __HAL_RCC_USART2_CLK_ENABLE(hw)
__GPIOA_CLK_ENABLE(hw) == __HAL_RCC_GPIOA_CLK_ENABLE(hw)

\* The macros of the branch #if MODOPS_USARTX == 1 / #elif MODOPS_USARTX == 2.
USARTx(MODOPS_USARTX) ==
    CASE MODOPS_USARTX = 1 -> USART1
      [] MODOPS_USARTX = 2 -> USART2
USARTx_CLK_ENABLE(MODOPS_USARTX, hw) ==
    CASE MODOPS_USARTX = 1 -> __USART1_CLK_ENABLE(hw)
      [] MODOPS_USARTX = 2 -> __USART2_CLK_ENABLE(hw)
USARTx_RX_GPIO_CLK_ENABLE(MODOPS_USARTX, hw) ==
    CASE MODOPS_USARTX = 1 -> __GPIOA_CLK_ENABLE(hw)
      [] MODOPS_USARTX = 2 -> __GPIOA_CLK_ENABLE(hw)
USARTx_TX_GPIO_CLK_ENABLE(MODOPS_USARTX, hw) ==
    CASE MODOPS_USARTX = 1 -> __GPIOA_CLK_ENABLE(hw)
      [] MODOPS_USARTX = 2 -> __GPIOA_CLK_ENABLE(hw)
USARTx_TX_PIN(MODOPS_USARTX) ==
    CASE MODOPS_USARTX = 1 -> GPIO_PIN_9
      [] MODOPS_USARTX = 2 -> GPIO_PIN_2
USARTx_TX_GPIO_PORT(MODOPS_USARTX) ==
    CASE MODOPS_USARTX = 1 -> GPIOA
      [] MODOPS_USARTX = 2 -> GPIOA
USARTx_RX_PIN(MODOPS_USARTX) ==
    CASE MODOPS_USARTX = 1 -> GPIO_PIN_10
      [] MODOPS_USARTX = 2 -> GPIO_PIN_3
USARTx_RX_GPIO_PORT(MODOPS_USARTX) ==
    CASE MODOPS_USARTX = 1 -> GPIOA
      [] MODOPS_USARTX = 2 -> GPIOA

ResolverNames == {"USART_TX_GPIO_CLK_ENABLE", "USART_RX_GPIO_CLK_ENABLE",
                  "USART_CLK_ENABLE", "USART_RX_PIN", "USART_TX_PIN",
                  "USART_RX_GPIO_PORT", "USART_TX_GPIO_PORT"}

(* ------------------------------------------------------------------ state *)

VARIABLES
    pc,              \* position of the single thread of control
    op,              \* the entry point the last call from the boot path went to
    arg,             \* its usart_base / huart->Instance argument
    ret,             \* last integer value handed back to a caller (pin, tick)
    retp,            \* last pointer or status handed back to a caller
    rcc,             \* RCC peripheral-clock-enable bits that are set
    GPIO_InitStruct, \* local of HAL_UART_MspInit
    hal_calls,       \* hardware-facing calls made by the call in progress
    console,         \* lines printf wrote during the call in progress
    sts,             \* statuses the HAL returned to SystemClock_Config so far
    RCC_OscInitStruct, \* local of SystemClock_Config
    RCC_ClkInitStruct, \* local of SystemClock_Config
    SystemCoreClock, \* core frequency the clock tree currently delivers
    pll_out,         \* PLL output frequency, 0 while the PLL is off
    resets,          \* HAL_NVIC_SystemReset calls of the arch_shutdown in progress
    mode,            \* argument of arch_shutdown
    TickPriority,    \* argument of HAL_InitTick
    sys_ticks,       \* the timer collaborator's system tick counter
    reads            \* the values HAL_GetTick handed back, oldest first

vars == <<pc, op, arg, ret, retp, rcc, GPIO_InitStruct, hal_calls, console, sts,
          RCC_OscInitStruct, RCC_ClkInitStruct, SystemCoreClock, pll_out,
          resets, mode, TickPriority, sys_ticks, reads>>


(* ------------------------------------------------ values used by the state *)

HAL_OK == "HAL_OK"
HAL_ERROR == "HAL_ERROR"
HAL_BUSY == "HAL_BUSY"
HAL_TIMEOUT == "HAL_TIMEOUT"
\* HAL_StatusTypeDef: what a HAL clock call can hand back.
HAL_StatusTypeDef == {HAL_OK, HAL_ERROR, HAL_BUSY, HAL_TIMEOUT}

\* arch_shutdown_mode_t, and a value outside the enumeration.
ARCH_SHUTDOWN_MODE_HALT == "ARCH_SHUTDOWN_MODE_HALT"
ARCH_SHUTDOWN_MODE_REBOOT == "ARCH_SHUTDOWN_MODE_REBOOT"
ARCH_SHUTDOWN_MODE_ABORT == "ARCH_SHUTDOWN_MODE_ABORT"
ShutdownModes == {ARCH_SHUTDOWN_MODE_HALT, ARCH_SHUTDOWN_MODE_REBOOT,
                  ARCH_SHUTDOWN_MODE_ABORT, "OTHER"}

\* TickPriority arguments tried for HAL_InitTick (uint32_t).
TickPriorities == {0, 15, 255}

\* An RCC_OscInitTypeDef nothing has been written to.
NoOsc == [OscillatorType |-> {}, HSEState |-> UNINIT, HSEPredivValue |-> UNINIT,
          LSEState |-> UNINIT, HSIState |-> UNINIT, PLLState |-> UNINIT,
          PLLSource |-> UNINIT, PLLMUL |-> UNINIT]
\* An RCC_ClkInitTypeDef nothing has been written to.
NoClk == [ClockType |-> {}, SYSCLKSource |-> UNINIT, AHBCLKDivider |-> UNINIT,
          APB1CLKDivider |-> UNINIT, APB2CLKDivider |-> UNINIT]

\* What ret and retp hold while the call in progress has handed nothing back.
NoValue == -1
NoPtr == "NONE"

NoMode == "OTHER"

(* ------------------------------------------------------------------- Init *)

Init ==
    /\ pc = "boot"
    /\ op = "none"
    /\ arg = NULL
    /\ ret = NoValue
    /\ retp = NoPtr
    /\ rcc \in SUBSET Clocks
    /\ GPIO_InitStruct = NoInit
    /\ hal_calls = <<>>
    /\ console = <<>>
    /\ sts = <<>>
    /\ RCC_OscInitStruct = NoOsc
    /\ RCC_ClkInitStruct = NoClk
    /\ SystemCoreClock = 0
    /\ pll_out = 0
    /\ resets = 0
    /\ mode = NoMode
    /\ TickPriority = 0
    /\ sys_ticks = 0
    /\ reads = <<>>

\* Entering a call from the boot path with its arguments: the records of the
\* previous call are dropped, the locals of the callee hold nothing yet and
\* nothing has been handed back.
Enter(name, base, m, prio) ==
    /\ pc = "idle"
    /\ op' = name
    /\ arg' = base
    /\ mode' = m
    /\ TickPriority' = prio
    /\ GPIO_InitStruct' = NoInit
    /\ RCC_OscInitStruct' = NoOsc
    /\ RCC_ClkInitStruct' = NoClk
    /\ sts' = <<>>
    /\ console' = <<>>
    /\ resets' = 0

Hardware == <<SystemCoreClock, pll_out>>
Ticks == <<sys_ticks, reads>>

(* ------------------------------------- the resolver functions, called alone *)

\* The hardware handed to a callee that starts with an empty call record.
Hw == [rcc |-> rcc, calls |-> <<>>]

\* A resolver called on its own with result r: the value is handed back and the
\* boot path goes on, unless the call halted in assert(0).
CallResolver(name, base, r) ==
    /\ Enter(name, base, NoMode, 0)
    /\ rcc' = r.hw.rcc
    /\ hal_calls' = r.hw.calls
    /\ UNCHANGED <<Hardware, Ticks>>
    /\ IF r.asserted
       THEN /\ pc' = "halted"
            /\ ret' = NoValue
            /\ retp' = NoPtr
       ELSE /\ pc' = "idle"
            /\ ret' = r.val
            /\ retp' = r.ptr

Call_USART_TX_GPIO_CLK_ENABLE ==
    \E base \in Instances :
        CallResolver("USART_TX_GPIO_CLK_ENABLE", base,
                     USART_TX_GPIO_CLK_ENABLE(base, Hw))

Call_USART_RX_GPIO_CLK_ENABLE ==
    \E base \in Instances :
        CallResolver("USART_RX_GPIO_CLK_ENABLE", base,
                     USART_RX_GPIO_CLK_ENABLE(base, Hw))

Call_USART_CLK_ENABLE ==
    \E base \in Instances :
        CallResolver("USART_CLK_ENABLE", base, USART_CLK_ENABLE(base, Hw))

Call_USART_RX_PIN ==
    \E base \in Instances :
        CallResolver("USART_RX_PIN", base, USART_RX_PIN(base, Hw))

Call_USART_TX_PIN ==
    \E base \in Instances :
        CallResolver("USART_TX_PIN", base, USART_TX_PIN(base, Hw))

Call_USART_RX_GPIO_PORT ==
    \E base \in Instances :
        CallResolver("USART_RX_GPIO_PORT", base, USART_RX_GPIO_PORT(base, Hw))

Call_USART_TX_GPIO_PORT ==
    \E base \in Instances :
        CallResolver("USART_TX_GPIO_PORT", base, USART_TX_GPIO_PORT(base, Hw))


(* ------------------------------------------------------- HAL_UART_MspInit *)

\* The hardware handed to a callee in the middle of a call.
HwNow == [rcc |-> rcc, calls |-> hal_calls]

\* HAL_UART_MspInit with the pin configuration placed ahead of the clock
\* enables.
HAL_UART_MspInit_Enter_PinsFirst ==
    \E Instance \in Instances :
        /\ Enter("HAL_UART_MspInit", Instance, NoMode, 0)
        /\ pc' = "msp_94"
        /\ hal_calls' = <<>>
        /\ ret' = NoValue
        /\ retp' = NoPtr
        /\ UNCHANGED <<rcc, Hardware, Ticks>>

\* void *uart_base = huart->Instance;
HAL_UART_MspInit_Enter ==
    \E Instance \in Instances :
        /\ Enter("HAL_UART_MspInit", Instance, NoMode, 0)
        /\ pc' = "msp_86"
        /\ hal_calls' = <<>>
        /\ ret' = NoValue
        /\ retp' = NoPtr
        /\ UNCHANGED <<rcc, Hardware, Ticks>>

MspFrame ==
    UNCHANGED <<op, arg, ret, retp, console, sts, RCC_OscInitStruct,
                RCC_ClkInitStruct, resets, mode, TickPriority, Hardware, Ticks>>

\* A statement of HAL_UART_MspInit that calls a void resolver with result r.
MspCall(r, next) ==
    /\ MspFrame
    /\ UNCHANGED GPIO_InitStruct
    /\ rcc' = r.hw.rcc
    /\ hal_calls' = r.hw.calls
    /\ pc' = IF r.asserted THEN "halted" ELSE next

\* USART_TX_GPIO_CLK_ENABLE(uart_base);
MspInit_TxGpioClk ==
    /\ pc = "msp_86"
    /\ MspCall(USART_TX_GPIO_CLK_ENABLE(arg, HwNow), "msp_87")

\* USART_RX_GPIO_CLK_ENABLE(uart_base);
MspInit_RxGpioClk ==
    /\ pc = "msp_87"
    /\ MspCall(USART_RX_GPIO_CLK_ENABLE(arg, HwNow), "msp_90")

\* USART_CLK_ENABLE(uart_base);
MspInit_UsartClk ==
    /\ pc = "msp_90"
    /\ MspCall(USART_CLK_ENABLE(arg, HwNow), "msp_94")

\* A pin configuration statement: the pin is resolved and stored in init, then
\* the port is resolved and HAL_GPIO_Init is called with init.
MspConfig(pin, port, init, next) ==
    /\ MspFrame
    /\ rcc' = rcc
    /\ IF pin.asserted
       THEN /\ pc' = "halted"
            /\ UNCHANGED <<GPIO_InitStruct, hal_calls>>
       ELSE /\ GPIO_InitStruct' = init
            /\ IF port.asserted
               THEN /\ pc' = "halted"
                    /\ UNCHANGED hal_calls
               ELSE /\ pc' = next
                    /\ hal_calls' = HAL_GPIO_Init(port.ptr, init, HwNow).calls

\* GPIO_InitStruct.Pin = USART_TX_PIN(uart_base); .Mode, .Pull, .Speed are set;
\* HAL_GPIO_Init(USART_TX_GPIO_PORT(uart_base), &GPIO_InitStruct);
TxInitStruct(pinval) ==
    [Pin |-> pinval, Mode |-> GPIO_MODE_AF_PP, Pull |-> GPIO_PULLUP,
     Speed |-> GPIO_SPEED_FREQ_HIGH]

MspInit_TxPin ==
    /\ pc = "msp_94"
    /\ LET pin == USART_TX_PIN(arg, HwNow)
       IN MspConfig(pin, USART_TX_GPIO_PORT(arg, HwNow), TxInitStruct(pin.val),
                    "msp_102")

\* GPIO_InitStruct.Pin = USART_RX_PIN(uart_base); the other fields are kept;
\* HAL_GPIO_Init(USART_RX_GPIO_PORT(uart_base), &GPIO_InitStruct); return.
RxInitStruct(init, pinval) == [init EXCEPT !.Pin = pinval]

MspInit_RxPin ==
    /\ pc = "msp_102"
    /\ LET pin == USART_RX_PIN(arg, HwNow)
       IN MspConfig(pin, USART_RX_GPIO_PORT(arg, HwNow),
                    RxInitStruct(GPIO_InitStruct, pin.val), "idle")


(* ------------------------------------------ arch_init, SystemClock_Config *)

\* Frequency of the external high-speed crystal the board carries.
HSE_VALUE == 8000000

\* static_assert(OPTION_MODULE_GET(embox__arch__system, NUMBER, core_freq) == ...)
core_freq == 72000000

\* What the divider and multiplier selections stand for.
HsePrediv(v) ==
    CASE v = "RCC_HSE_PREDIV_DIV1" -> 1
      [] v = "RCC_HSE_PREDIV_DIV2" -> 2
PllMul(v) ==
    CASE v = "RCC_PLL_MUL6" -> 6
      [] v = "RCC_PLL_MUL8" -> 8
      [] v = "RCC_PLL_MUL9" -> 9
AhbDiv(v) ==
    CASE v = "RCC_SYSCLK_DIV1" -> 1
      [] v = "RCC_SYSCLK_DIV2" -> 2

\* PLL output the oscillator settings ask for; 0 stands for a PLL that is off
\* or not fed by the external crystal.
PllOut(osc) ==
    IF osc.PLLState = "RCC_PLL_ON" /\ osc.PLLSource = "RCC_PLLSOURCE_HSE"
       /\ osc.HSEState = "RCC_HSE_ON" /\ "HSE" \in osc.OscillatorType
    THEN (HSE_VALUE \div HsePrediv(osc.HSEPredivValue)) * PllMul(osc.PLLMUL)
    ELSE 0

\* Core (HCLK) frequency the clock-tree settings ask for, given the PLL output;
\* 0 stands for an operating point other than the PLL-derived one.
Hclk(clk, pll) ==
    IF clk.SYSCLKSource = "RCC_SYSCLKSOURCE_PLLCLK"
       /\ {"SYSCLK", "HCLK"} \subseteq clk.ClockType
    THEN pll \div AhbDiv(clk.AHBCLKDivider)
    ELSE 0

\* The oscillator settings with another PLL multiplier.
OscInit_Mul6 ==
    [OscillatorType |-> {"HSE", "LSE"}, HSEState |-> "RCC_HSE_ON",
     HSEPredivValue |-> "RCC_HSE_PREDIV_DIV1", LSEState |-> "RCC_LSE_ON",
     HSIState |-> "RCC_HSI_ON", PLLState |-> "RCC_PLL_ON",
     PLLSource |-> "RCC_PLLSOURCE_HSE", PLLMUL |-> "RCC_PLL_MUL6"]

\* Lines 29-36: the oscillator settings.
OscInit ==
    [OscillatorType |-> {"HSE", "LSE"}, HSEState |-> "RCC_HSE_ON",
     HSEPredivValue |-> "RCC_HSE_PREDIV_DIV1", LSEState |-> "RCC_LSE_ON",
     HSIState |-> "RCC_HSI_ON", PLLState |-> "RCC_PLL_ON",
     PLLSource |-> "RCC_PLLSOURCE_HSE", PLLMUL |-> "RCC_PLL_MUL9"]

\* Lines 44-49: the clock-tree settings.
ClkInit ==
    [ClockType |-> {"HCLK", "SYSCLK", "PCLK1", "PCLK2"},
     SYSCLKSource |-> "RCC_SYSCLKSOURCE_PLLCLK",
     AHBCLKDivider |-> "RCC_SYSCLK_DIV1", APB1CLKDivider |-> "RCC_HCLK_DIV2",
     APB2CLKDivider |-> "RCC_HCLK_DIV1"]

\* if (status != HAL_OK) { printf(msg); }
Report(status, msg, out) == IF status # HAL_OK THEN Append(out, msg) ELSE out

\* SystemClock_Config giving up at the first failing step.
AfterStep_EarlyExit(status, next) == IF status # HAL_OK THEN "idle" ELSE next

\* Where SystemClock_Config goes after a step that returned status.
AfterStep(status, next) == next

SccFrame ==
    UNCHANGED <<op, arg, ret, retp, rcc, GPIO_InitStruct, resets, mode,
                TickPriority, Ticks>>

\* arch_init up to the call of SystemClock_Config.
arch_init ==
    /\ pc = "boot"
    /\ op' = "arch_init"
    /\ hal_calls' = <<CallEvent("SystemInit"), CallEvent("HAL_Init"),
                      CallEvent("nvic_table_fill_stubs")>>
    /\ pc' = "scc_29"
    /\ UNCHANGED <<arg, ret, retp, rcc, GPIO_InitStruct, console, sts,
                   RCC_OscInitStruct, RCC_ClkInitStruct, resets, mode,
                   TickPriority, Hardware, Ticks>>

\* Lines 29-40: HAL_RCC_OscConfig and its diagnostic.
SystemClock_Config_Osc ==
    /\ pc = "scc_29"
    /\ \E status \in HAL_StatusTypeDef :
        /\ RCC_OscInitStruct' = OscInit
        /\ hal_calls' = Append(hal_calls, CallEvent("HAL_RCC_OscConfig"))
        /\ sts' = Append(sts, status)
        /\ pll_out' = IF status = HAL_OK THEN PllOut(OscInit) ELSE pll_out
        /\ console' = Report(status, ">>> SystemClock_Config failed\n", console)
        /\ pc' = AfterStep(status, "scc_44")
    /\ SccFrame
    /\ UNCHANGED <<RCC_ClkInitStruct, SystemCoreClock>>

\* Lines 44-53: HAL_RCC_ClockConfig and its diagnostic.
SystemClock_Config_Clock ==
    /\ pc = "scc_44"
    /\ \E status \in HAL_StatusTypeDef :
        /\ RCC_ClkInitStruct' = ClkInit
        /\ hal_calls' = Append(hal_calls, CallEvent("HAL_RCC_ClockConfig"))
        /\ sts' = Append(sts, status)
        /\ SystemCoreClock' = IF status = HAL_OK THEN Hclk(ClkInit, pll_out)
                              ELSE SystemCoreClock
        /\ console' = Report(status, ">>> SystemClock_Config failed\n", console)
        /\ pc' = AfterStep(status, "scc_55")
    /\ SccFrame
    /\ UNCHANGED <<RCC_OscInitStruct, pll_out>>

\* Lines 55-61: HAL_RCCEx_PeriphCLKConfig and its diagnostic; SystemClock_Config
\* and arch_init return.
SystemClock_Config_Periph ==
    /\ pc = "scc_55"
    /\ \E status \in HAL_StatusTypeDef :
        /\ hal_calls' = Append(hal_calls, CallEvent("HAL_RCCEx_PeriphCLKConfig"))
        /\ sts' = Append(sts, status)
        /\ console' = Report(status, ">>> RTC and ADC clocks failed\n", console)
        /\ pc' = AfterStep(status, "idle")
    /\ SccFrame
    /\ UNCHANGED <<RCC_OscInitStruct, RCC_ClkInitStruct, Hardware>>

(* ------------------------------------------------ arch_idle, arch_shutdown *)

\* void arch_idle(void) { }
arch_idle ==
    /\ Enter("arch_idle", NULL, NoMode, 0)
    /\ pc' = "idle"
    /\ hal_calls' = <<>>
    /\ ret' = NoValue
    /\ retp' = NoPtr
    /\ UNCHANGED <<rcc, Hardware, Ticks>>

arch_shutdown_Enter ==
    \E m \in ShutdownModes :
        /\ Enter("arch_shutdown", NULL, m, 0)
        /\ pc' = "sd_82"
        /\ hal_calls' = <<>>
        /\ ret' = NoValue
        /\ retp' = NoPtr
        /\ UNCHANGED <<rcc, Hardware, Ticks>>

\* switch (mode): whether the selected branch calls HAL_NVIC_SystemReset.
SwitchResets(m) ==
    CASE m = ARCH_SHUTDOWN_MODE_HALT -> TRUE
      [] m = ARCH_SHUTDOWN_MODE_REBOOT -> TRUE
      [] m = ARCH_SHUTDOWN_MODE_ABORT -> TRUE
      [] OTHER -> TRUE

ShutdownFrame ==
    UNCHANGED <<op, arg, ret, retp, rcc, GPIO_InitStruct, console, sts,
                RCC_OscInitStruct, RCC_ClkInitStruct, mode, TickPriority,
                Hardware, Ticks>>

\* Lines 82-89: the reset request. The controller either resets the chip, and
\* the call is never resumed, or the request comes back and the code breaks
\* out of the switch.
arch_shutdown_switch ==
    /\ pc = "sd_82"
    /\ ShutdownFrame
    /\ IF SwitchResets(mode)
       THEN /\ resets' = resets + 1
            /\ hal_calls' = Append(hal_calls, CallEvent("HAL_NVIC_SystemReset"))
            /\ pc' \in {"reset", "sd_92"}
       ELSE /\ UNCHANGED <<resets, hal_calls>>
            /\ pc' = "sd_92"

\* arch_shutdown without the closing loop: control goes back to the caller.
AfterSwitch_Returns == "idle"

\* Where the code after the switch takes control.
AfterSwitch == "sd_92"

\* Lines 92-94: while(1) { }
arch_shutdown_loop ==
    /\ pc = "sd_92"
    /\ pc' = AfterSwitch
    /\ ShutdownFrame
    /\ UNCHANGED <<resets, hal_calls>>

(* -------------------------------------------------- HAL_InitTick, HAL_GetTick *)

\* The timer collaborator's counter, as clock_sys_ticks() reports it.
clock_sys_ticks == sys_ticks

\* The timer collaborator counts a tick.
TimerTick ==
    /\ pc = "idle"
    /\ sys_ticks < MaxTicks
    /\ sys_ticks' = sys_ticks + 1
    /\ UNCHANGED <<pc, op, arg, ret, retp, rcc, GPIO_InitStruct, hal_calls,
                   console, sts, RCC_OscInitStruct, RCC_ClkInitStruct, Hardware,
                   resets, mode, TickPriority, reads>>

\* HAL_InitTick rejecting priorities the interrupt controller does not have.
HAL_InitTick_Result_Checked(prio) == IF prio > 15 THEN HAL_ERROR ELSE HAL_OK

\* HAL_StatusTypeDef HAL_InitTick(uint32_t TickPriority) { return HAL_OK; }
HAL_InitTick_Result(prio) == HAL_OK

HAL_InitTick ==
    \E prio \in TickPriorities :
        /\ Enter("HAL_InitTick", NULL, NoMode, prio)
        /\ retp' = HAL_InitTick_Result(prio)
        /\ ret' = NoValue
        /\ pc' = "idle"
        /\ hal_calls' = <<>>
        /\ UNCHANGED <<rcc, Hardware, sys_ticks, reads>>

\* uint32_t HAL_GetTick(void) { return clock_sys_ticks(); }
HAL_GetTick_Result == clock_sys_ticks

HAL_GetTick ==
    /\ Enter("HAL_GetTick", NULL, NoMode, 0)
    /\ Len(reads) < MaxReads
    /\ ret' = HAL_GetTick_Result
    /\ retp' = NoPtr
    /\ reads' = Append(reads, ret')
    /\ pc' = "idle"
    /\ hal_calls' = <<>>
    /\ UNCHANGED <<rcc, Hardware, sys_ticks>>

(* ------------------------------------------------------------------- Next *)

Next ==
    \/ arch_init
    \/ SystemClock_Config_Osc
    \/ SystemClock_Config_Clock
    \/ SystemClock_Config_Periph
    \/ Call_USART_TX_GPIO_CLK_ENABLE
    \/ Call_USART_RX_GPIO_CLK_ENABLE
    \/ Call_USART_CLK_ENABLE
    \/ Call_USART_RX_PIN
    \/ Call_USART_TX_PIN
    \/ Call_USART_RX_GPIO_PORT
    \/ Call_USART_TX_GPIO_PORT
    \/ HAL_UART_MspInit_Enter
    \/ MspInit_TxGpioClk
    \/ MspInit_RxGpioClk
    \/ MspInit_UsartClk
    \/ MspInit_TxPin
    \/ MspInit_RxPin
    \/ arch_idle
    \/ arch_shutdown_Enter
    \/ arch_shutdown_switch
    \/ arch_shutdown_loop
    \/ TimerTick
    \/ HAL_InitTick
    \/ HAL_GetTick

Spec == Init /\ [][Next]_vars


(* ----------------------------------------------------------------- claims *)

Supported == {USART1, USART2}

\* A step in which the boot path calls one of the resolver functions.
ResolverStep ==
    /\ pc = "idle"
    /\ op' \in ResolverNames
    /\ pc' \in {"idle", "halted"}
    /\ sys_ticks' = sys_ticks

\* The resource set of a supported instance: TX pin, RX pin, port, clock.
Resources(base) ==
    IF base = USART1
    THEN [tx |-> GPIO_PIN(9), rx |-> GPIO_PIN(10), port |-> GPIOA, clk |-> "USART1"]
    ELSE [tx |-> GPIO_PIN(2), rx |-> GPIO_PIN(3), port |-> GPIOA, clk |-> "USART2"]

\* C1: a resolver called for USART1 or USART2 returns that instance's resources:
\* USART1 -> TX pin 9, RX pin 10, port GPIOA, USART1 clock only; USART2 -> TX
\* pin 2, RX pin 3, port GPIOA, USART2 clock only; the port is not null and the
\* TX pin differs from the RX pin.
C1_ResolverTable ==
    [][ (ResolverStep /\ arg' \in Supported) =>
          LET want == Resources(arg')
          IN /\ pc' = "idle"
             /\ op' = "USART_TX_PIN" => ret' = want.tx /\ rcc' = rcc
             /\ op' = "USART_RX_PIN" => ret' = want.rx /\ rcc' = rcc
             /\ op' \in {"USART_TX_GPIO_PORT", "USART_RX_GPIO_PORT"} =>
                    retp' = want.port /\ retp' # NULL /\ rcc' = rcc
             /\ op' = "USART_CLK_ENABLE" =>
                    /\ rcc' = rcc \cup {want.clk}
                    /\ hal_calls' = <<ClkEvent(want.clk)>>
             /\ want.tx # want.rx
             /\ USART_TX_PIN(arg', Hw).val # USART_RX_PIN(arg', Hw).val
      ]_vars

C1_Witness ==
    /\ pc = "idle"
    /\ op = "USART_CLK_ENABLE"
    /\ arg = USART2
    /\ "USART2" \in rcc
    /\ "USART1" \notin rcc

\* C2: a resolver called for any instance other than USART1 and USART2 halts in
\* its assertion: nothing is handed back, no clock is enabled, and the halted
\* program takes no further step.
C2_UnsupportedHalts ==
    [][ /\ (ResolverStep /\ arg' \notin Supported) =>
              /\ pc' = "halted"
              /\ ret' = NoValue
              /\ retp' = NoPtr
              /\ rcc' = rcc
              /\ hal_calls' = <<>>
        /\ pc = "halted" => pc' = "halted"
      ]_vars

C2_Witness ==
    /\ pc = "halted"
    /\ op = "USART_RX_PIN"
    /\ arg = USART3
    /\ ret = NoValue

\* The calls HAL_UART_MspInit makes for a supported instance, in order.
MspSequence(base) ==
    LET want == Resources(base)
        cfg(pin) == [Pin |-> pin, Mode |-> GPIO_MODE_AF_PP, Pull |-> GPIO_PULLUP,
                     Speed |-> GPIO_SPEED_FREQ_HIGH]
    IN << ClkEvent("GPIOA"), ClkEvent("GPIOA"), ClkEvent(want.clk),
          Event("HAL_GPIO_Init", want.port, cfg(want.tx)),
          Event("HAL_GPIO_Init", want.port, cfg(want.rx)) >>

\* How many of them have been made at each position of HAL_UART_MspInit.
MspProgress ==
    CASE pc = "msp_86" -> 0
      [] pc = "msp_87" -> 1
      [] pc = "msp_90" -> 2
      [] pc = "msp_94" -> 3
      [] pc = "msp_102" -> 4
      [] pc = "idle" -> 5
      [] OTHER -> -1

\* C3: HAL_UART_MspInit for a supported instance makes its calls in the order
\* TX port clock, RX port clock, peripheral clock, TX pin configuration, RX pin
\* configuration; every HAL_GPIO_Init on a port comes after a clock enable of
\* that port, and the RX pin gets the mode, pull and speed of the TX pin.
C3_MspInitOrder ==
    (op = "HAL_UART_MspInit" /\ arg \in Supported) =>
        /\ MspProgress >= 0
        /\ hal_calls = SubSeq(MspSequence(arg), 1, MspProgress)
        /\ \A i \in 1..Len(hal_calls) :
               hal_calls[i].ev = "HAL_GPIO_Init" =>
                   /\ \E j \in 1..(i - 1) : hal_calls[j] = ClkEvent(hal_calls[i].tgt)
                   /\ hal_calls[i].init.Mode = GPIO_MODE_AF_PP
                   /\ hal_calls[i].init.Pull = GPIO_PULLUP
                   /\ hal_calls[i].init.Speed = GPIO_SPEED_FREQ_HIGH

C3_Witness ==
    /\ op = "HAL_UART_MspInit"
    /\ arg = USART2
    /\ pc = "idle"
    /\ Len(hal_calls) = 5
    /\ hal_calls[5].init.Pin = GPIO_PIN(3)

\* The calls arch_init makes, in order.
InitSequence ==
    << CallEvent("SystemInit"), CallEvent("HAL_Init"),
       CallEvent("nvic_table_fill_stubs"), CallEvent("HAL_RCC_OscConfig"),
       CallEvent("HAL_RCC_ClockConfig"), CallEvent("HAL_RCCEx_PeriphCLKConfig") >>

\* The diagnostic of each step of SystemClock_Config.
Diagnostic ==
    << ">>> SystemClock_Config failed\n", ">>> SystemClock_Config failed\n",
       ">>> RTC and ADC clocks failed\n" >>

\* The diagnostics of the failed steps among the first n, in order.
RECURSIVE FailedDiagnostics(_, _)
FailedDiagnostics(st, n) ==
    IF n = 0 THEN <<>>
    ELSE IF st[n] # HAL_OK
         THEN Append(FailedDiagnostics(st, n - 1), Diagnostic[n])
         ELSE FailedDiagnostics(st, n - 1)

\* How many steps SystemClock_Config has made at each position.
SccProgress ==
    CASE pc = "scc_29" -> 0
      [] pc = "scc_44" -> 1
      [] pc = "scc_55" -> 2
      [] pc = "idle" -> 3
      [] OTHER -> -1

\* C4: whatever statuses the three HAL calls return, SystemClock_Config calls
\* the oscillator, clock-tree and peripheral-clock configuration once each and
\* in that order, and prints a diagnostic for exactly the steps that failed.
C4_ClockConfigSteps ==
    op = "arch_init" =>
        /\ SccProgress >= 0
        /\ Len(sts) = SccProgress
        /\ hal_calls = SubSeq(InitSequence, 1, 3 + SccProgress)
        /\ console = FailedDiagnostics(sts, Len(sts))

C4_Witness ==
    /\ op = "arch_init"
    /\ pc = "idle"
    /\ sts = <<HAL_ERROR, HAL_OK, HAL_TIMEOUT>>
    /\ Len(console) = 2
    /\ Len(hal_calls) = 6

\* C5: arch_shutdown, whatever its mode, calls HAL_NVIC_SystemReset once and
\* control never comes back to the caller: the chip resets or the code stays
\* in its loop.
C5_ShutdownNeverReturns ==
    op = "arch_shutdown" =>
        /\ pc \in {"sd_82", "sd_92", "reset"}
        /\ pc = "sd_82" => resets = 0 /\ hal_calls = <<>>
        /\ pc \in {"sd_92", "reset"} =>
               /\ resets = 1
               /\ hal_calls = <<CallEvent("HAL_NVIC_SystemReset")>>

C5_Witness ==
    /\ op = "arch_shutdown"
    /\ pc = "sd_92"
    /\ mode = ARCH_SHUTDOWN_MODE_HALT
    /\ resets = 1

GpioClkNames == {"USART_TX_GPIO_CLK_ENABLE", "USART_RX_GPIO_CLK_ENABLE"}

\* C6: for a supported instance the TX and RX port clock enables set the GPIOA
\* enable bit and keep every other bit; a second call in succession, or the RX
\* call after the TX call, leaves the enable bits as the first call left them.
C6_GpioClkIdempotent ==
    [][ /\ (ResolverStep /\ op' \in GpioClkNames /\ arg' \in Supported) =>
              /\ rcc' = rcc \cup {"GPIOA"}
              /\ (op \in GpioClkNames /\ arg \in Supported) => rcc' = rcc
        /\ (op = "HAL_UART_MspInit" /\ arg \in Supported /\ pc = "msp_86") =>
              rcc' = rcc \cup {"GPIOA"}
        /\ (op = "HAL_UART_MspInit" /\ arg \in Supported /\ pc = "msp_87") =>
              rcc' = rcc
      ]_vars

C6_Witness ==
    /\ op = "HAL_UART_MspInit"
    /\ arg = USART1
    /\ pc = "msp_90"
    /\ hal_calls = <<ClkEvent("GPIOA"), ClkEvent("GPIOA")>>
    /\ "GPIOA" \in rcc
    /\ "GPIOB" \notin rcc

InitTickStep ==
    /\ op' = "HAL_InitTick"
    /\ op # "HAL_InitTick" \/ TickPriority' # TickPriority

\* C8: HAL_InitTick hands back HAL_OK for every priority and changes nothing
\* else; HAL_GetTick hands back the current value of the system tick counter
\* and leaves the counter alone, so a reading is never below the one before.
C8_TickStubs ==
    [][ /\ InitTickStep =>
              /\ retp' = HAL_OK
              /\ pc' = "idle"
              /\ UNCHANGED <<rcc, Hardware, sys_ticks, reads>>
        /\ Len(reads') > Len(reads) =>
              /\ op' = "HAL_GetTick"
              /\ ret' = sys_ticks
              /\ reads' = Append(reads, ret')
              /\ pc' = "idle"
              /\ UNCHANGED <<rcc, Hardware, sys_ticks>>
              /\ Len(reads) > 0 => ret' >= reads[Len(reads)]
      ]_vars

C8_Witness ==
    /\ op = "HAL_GetTick"
    /\ Len(reads) = 2
    /\ reads[1] < reads[2]
    /\ ret = reads[2]
    /\ sys_ticks = ret


\* C9: HAL_UART_MspInit for an unsupported instance halts in its first resolver
\* call: no clock enable bit changes, no clock enable and no HAL_GPIO_Init call
\* is made.
C9_MspInitUnsupported ==
    [][ (op' = "HAL_UART_MspInit" /\ arg' \notin Supported) =>
            /\ pc' \in {"msp_86", "halted"}
            /\ pc = "msp_86" => pc' = "halted"
            /\ rcc' = rcc
            /\ hal_calls' = <<>>
            /\ GPIO_InitStruct' = NoInit
      ]_vars

C9_Witness ==
    /\ op = "HAL_UART_MspInit"
    /\ arg = USART3
    /\ pc = "halted"
    /\ hal_calls = <<>>

\* C10: for usartx = 1 and usartx = 2, what the resolver functions yield for
\* the instance USARTx is what the header's USARTx_* macros name: the TX and RX
\* pins, the TX and RX ports, and the clock the enable macro switches on.
C10_HeaderAgrees ==
    [][ \A n \in UsartxOptions :
          (ResolverStep /\ arg' = USARTx(n)) =>
              /\ pc' = "idle"
              /\ op' = "USART_TX_PIN" => ret' = USARTx_TX_PIN(n)
              /\ op' = "USART_RX_PIN" => ret' = USARTx_RX_PIN(n)
              /\ op' = "USART_TX_GPIO_PORT" => retp' = USARTx_TX_GPIO_PORT(n)
              /\ op' = "USART_RX_GPIO_PORT" => retp' = USARTx_RX_GPIO_PORT(n)
              /\ op' = "USART_CLK_ENABLE" =>
                     /\ rcc' = USARTx_CLK_ENABLE(n, Hw).rcc
                     /\ hal_calls' = USARTx_CLK_ENABLE(n, Hw).calls
      ]_vars

C10_Witness ==
    /\ pc = "idle"
    /\ op = "USART_TX_PIN"
    /\ arg = USARTx(2)
    /\ ret = USARTx_TX_PIN(2)
    /\ ret = GPIO_PIN(2)

====
